---- MODULE Spec2Model ----
(***************************************************************************)
(* A model of the two batch converters of the repository:                  *)
(*   extract.py   : mbox text  -> list of {headers, body} records -> JSON  *)
(*   jsonTOeml.py : JSON array -> one .eml file per record                 *)
(* Text is modelled character by character: a string is a sequence of      *)
(* one-character strings, so splitting, trimming, joining and filename     *)
(* sanitisation are computed the way the Python code computes them.        *)
(***************************************************************************)
EXTENDS Integers, Sequences, FiniteSets, TLC

VARIABLES
    pc,            \* position of the running program
    input_file,    \* extract.py: the mbox file on disk (exists, lines, final_newline)
    mbox_content,  \* extract.py: the text read from the file
    email_parts,   \* parse_mbox: the segments still held after the split
    part_idx,      \* parse_mbox: position of the for loop over email_parts
    emails,        \* parse_mbox: the records built so far
    json_file,     \* extract.py: the JSON output file (written, content)
    printed,       \* diagnostics written to standard output, in order
    json_input,    \* jsonTOeml.py: the input document on disk
    emails_data,   \* convert_json_to_eml: the loaded array
    dir_exists,    \* convert_json_to_eml: whether output_dir exists
    out_dir,       \* convert_json_to_eml: the files of output_dir (name, content)
    i,             \* convert_json_to_eml: 0-based index of the export loop
    raised         \* the exception that escaped the running program, or "none"

vars == <<pc, input_file, mbox_content, email_parts, part_idx, emails, json_file,
          printed, json_input, emails_data, dir_exists, out_dir, i, raised>>

extract_vars == <<input_file, mbox_content, email_parts, part_idx, emails, json_file>>

eml_vars == <<json_input, emails_data, dir_exists, out_dir, i>>

(***************************************************************************)
(* Bounds of the model.                                                    *)
(***************************************************************************)
MaxLines == 5

MaxElems == 3

(***************************************************************************)
(* Characters and strings.                                                 *)
(***************************************************************************)
NL == "\n"

TAB == "\t"

Whitespace == {" ", TAB, NL, "\r", "\f"}

WordChars ==
    {"a","b","c","d","e","f","g","h","i","j","k","l","m","n","o","p","q","r","s","t",
     "u","v","w","x","y","z","A","B","C","D","E","F","G","H","I","J","K","L","M","N",
     "O","P","Q","R","S","T","U","V","W","X","Y","Z","0","1","2","3","4","5","6","7",
     "8","9","_"}

SetMin(S) == CHOOSE x \in S : \A y \in S : x <= y

SetMax(S) == CHOOSE x \in S : \A y \in S : y <= x

\* str.strip(): leading and trailing whitespace removed
Strip(s) ==
    LET keep == {k \in 1..Len(s) : s[k] \notin Whitespace}
    IN  IF keep = {} THEN <<>> ELSE SubSeq(s, SetMin(keep), SetMax(keep))

\* str.startswith
StartsWith(s, p) == Len(s) >= Len(p) /\ SubSeq(s, 1, Len(p)) = p

\* sep.join(parts)
RECURSIVE Join(_, _)
Join(parts, sep) ==
    IF parts = <<>> THEN <<>>
    ELSE IF Len(parts) = 1 THEN parts[1]
    ELSE parts[1] \o sep \o Join(Tail(parts), sep)

\* str.splitlines() for text whose only line terminator is "\n" (the file is
\* read in text mode, which turns "\r\n" and "\r" into "\n", and the modelled
\* text holds no other line boundary character): no empty last line
RECURSIVE SplitLinesFrom(_, _, _)
SplitLinesFrom(s, k, cur) ==
    IF k > Len(s) THEN (IF cur = <<>> THEN <<>> ELSE <<cur>>)
    ELSE IF s[k] = NL THEN <<cur>> \o SplitLinesFrom(s, k + 1, <<>>)
    ELSE SplitLinesFrom(s, k + 1, Append(cur, s[k]))

splitlines(s) == SplitLinesFrom(s, 1, <<>>)

(***************************************************************************)
(* extract.py: parse_mbox                                                  *)
(***************************************************************************)
FromSp == <<"F", "r", "o", "m", " ">>

\* the lookahead (?=^From ) with re.MULTILINE matches at p: p is the start of
\* the text or follows a "\n", and the five characters "From " start at p
DelimiterAt(s, p) ==
    /\ p = 1 \/ s[p - 1] = NL
    /\ p + 4 <= Len(s)
    /\ SubSeq(s, p, p + 4) = FromSp

RECURSIVE SplitAt(_, _, _)
SplitAt(s, start, cuts) ==
    IF cuts = {} THEN <<SubSeq(s, start, Len(s))>>
    ELSE LET c == SetMin(cuts)
         IN  <<SubSeq(s, start, c - 1)>> \o SplitAt(s, c, cuts \ {c})

\* re.split(r'(?=^From )', s, flags=re.MULTILINE): the text is cut before every
\* delimiter; a delimiter at the very start leaves an empty first part
re_split(s) == SplitAt(s, 1, {p \in 1..Len(s) : DelimiterAt(s, p)})

\* lines 20-24: split, then drop a first part that is empty or all whitespace
SplitMboxParts(s) ==
    LET parts == re_split(s)
    IN  IF parts # <<>> /\ Strip(parts[1]) = <<>> THEN Tail(parts) ELSE parts

\* lines 45-65: the lines after the envelope line, sorted into header lines and
\* body lines; the first blank line in header mode ends header mode
RECURSIVE ScanLines(_, _, _, _, _)
ScanLines(lines, k, header_section, header_lines, body_lines) ==
    IF k > Len(lines)
    THEN [header_lines |-> header_lines, body_lines |-> body_lines]
    ELSE LET line == lines[k]
         IN  IF header_section /\ Strip(line) = <<>>
             THEN ScanLines(lines, k + 1, FALSE, header_lines, body_lines)
             ELSE IF header_section
             THEN ScanLines(lines, k + 1, TRUE, Append(header_lines, line), body_lines)
             ELSE ScanLines(lines, k + 1, FALSE, header_lines, Append(body_lines, line))

\* the headers dict, kept in insertion order as a sequence of (key, value)
HasKey(headers, key) == \E k \in 1..Len(headers) : headers[k].key = key

GetValue(headers, key) ==
    headers[CHOOSE k \in 1..Len(headers) : headers[k].key = key].value

\* current_header_key = None (line 68); a key is never empty, and the test of
\* line 72 reads the key's truth value
NoKey == <<>>

\* re.match(r'^([\w-]+):\s*(.*)', line): the key is the longest run of word
\* characters and hyphens at the start, a colon must follow it, and the value
\* is the rest of the line after the whitespace that follows the colon
KeyLen(line) ==
    LET stop == {k \in 1..Len(line) : line[k] \notin WordChars \cup {"-"}}
    IN  IF stop = {} THEN Len(line) ELSE SetMin(stop) - 1

HeaderMatches(line) ==
    LET n == KeyLen(line) IN n >= 1 /\ n < Len(line) /\ line[n + 1] = ":"

MatchKey(line) == SubSeq(line, 1, KeyLen(line))

MatchValue(line) ==
    LET rest == SubSeq(line, KeyLen(line) + 2, Len(line))
        nonws == {k \in 1..Len(rest) : rest[k] \notin Whitespace}
    IN  IF nonws = {} THEN <<>> ELSE SubSeq(rest, SetMin(nonws), Len(rest))

IsContinuation(line) ==
    line # <<>> /\ (StartsWith(line, <<" ">>) \/ StartsWith(line, <<TAB>>))

\* line 74: headers[current_header_key] += '\n' + header_line.strip()
AppendContinuation(headers, key, line) ==
    [k \in 1..Len(headers) |->
        IF headers[k].key = key
        THEN [key |-> key, value |-> headers[k].value \o <<NL>> \o Strip(line)]
        ELSE headers[k]]

\* lines 86-88 with the guard removed: a later occurrence overwrites the value
StoreHeaderLastWins(st, key, value) ==
    IF HasKey(st.headers, key)
    THEN [headers |-> [k \in 1..Len(st.headers) |->
                          IF st.headers[k].key = key
                          THEN [key |-> key, value |-> Strip(value)]
                          ELSE st.headers[k]],
          current |-> key]
    ELSE [headers |-> Append(st.headers, [key |-> key, value |-> Strip(value)]),
          current |-> key]

\* lines 86-88: a key is stored, and becomes the current key, only when new
StoreHeader(st, key, value) ==
    IF ~HasKey(st.headers, key)
    THEN [headers |-> Append(st.headers, [key |-> key, value |-> Strip(value)]),
          current |-> key]
    ELSE st

\* lines 71-75 with the separator dropped: continuation appended without "\n"
FoldContinuationNoBreak(st, line) ==
    IF st.current # NoKey /\ HasKey(st.headers, st.current)
    THEN [st EXCEPT !.headers =
            [k \in 1..Len(st.headers) |->
                IF st.headers[k].key = st.current
                THEN [key |-> st.current, value |-> st.headers[k].value \o Strip(line)]
                ELSE st.headers[k]]]
    ELSE st

\* lines 71-75: a continuation line is appended to the current key's value
FoldContinuation(st, line) ==
    IF st.current # NoKey /\ HasKey(st.headers, st.current)
    THEN [st EXCEPT !.headers = AppendContinuation(st.headers, st.current, line)]
    ELSE st

\* lines 69-89: one header line
HeaderStep(st, line) ==
    IF IsContinuation(line) THEN FoldContinuation(st, line)
    ELSE IF HeaderMatches(line) THEN StoreHeader(st, MatchKey(line), MatchValue(line))
    ELSE st

\* lines 68-89: the loop over header_lines
RECURSIVE ParseHeadersFrom(_, _, _)
ParseHeadersFrom(header_lines, k, st) ==
    IF k > Len(header_lines) THEN st.headers
    ELSE ParseHeadersFrom(header_lines, k + 1, HeaderStep(st, header_lines[k]))

ParseHeaders(header_lines) ==
    ParseHeadersFrom(header_lines, 1, [headers |-> <<>>, current |-> NoKey])

\* line 92 with the blank separator line kept in the body
BodyOfKeepsBlank(lines) ==
    LET blank == {k \in 2..Len(lines) : Strip(lines[k]) = <<>>}
    IN  IF blank = {} THEN <<>>
        ELSE Join(SubSeq(lines, SetMin(blank), Len(lines)), <<NL>>)

\* lines 45-65 and 92: the body of a segment's lines
BodyOf(lines) == Join(ScanLines(lines, 2, TRUE, <<>>, <<>>).body_lines, <<NL>>)

\* lines 34-93: the record of one segment (the first line is not looked at)
ParseEmail(email_text) ==
    LET lines == splitlines(email_text)
    IN  [headers |-> ParseHeaders(ScanLines(lines, 2, TRUE, <<>>, <<>>).header_lines),
         body |-> BodyOf(lines)]

\* lines 31-32 and 38-39: a segment that is blank or has no line is skipped
SkipsPart(email_text) == Strip(email_text) = <<>> \/ splitlines(email_text) = <<>>

(***************************************************************************)
(* extract.py: the input files the model draws from.  A file is a list of  *)
(* lines; every line ends with "\n" except, when final_newline is FALSE,   *)
(* the last one.                                                           *)
(***************************************************************************)
LEnvelope == <<"F", "r", "o", "m", " ", "a">>

LHeaderA1 == <<"A", ":", " ", "1">>

LHeaderA2 == <<"A", ":", " ", "2">>

LHeaderB == <<"B", "-", "b", ":", "3", " ">>

LContinuation == <<" ", "x">>

LBlank == <<>>

LText == <<"h", "i", " ", "F", "r", "o", "m", " ", "b">>

LineVocab == {LEnvelope, LHeaderA1, LHeaderA2, LHeaderB, LContinuation, LBlank, LText}

\* the files the model reads: absent, or up to MaxLines lines; an unterminated
\* file has a last line, and that line is not empty
IsInputFile(f) ==
    \/ f = [exists |-> FALSE, lines |-> <<>>, final_newline |-> TRUE]
    \/ /\ f.exists
       /\ Len(f.lines) <= MaxLines
       /\ f.final_newline \/ (f.lines # <<>> /\ f.lines[Len(f.lines)] # <<>>)

\* f.read() (line 115): the text of the file
FileText(f) ==
    Join(f.lines, <<NL>>) \o (IF f.final_newline /\ f.lines # <<>> THEN <<NL>> ELSE <<>>)

NoJson == [written |-> FALSE, content |-> <<>>]

(***************************************************************************)
(* JSON values as json.load returns them: a tag t and a payload v.         *)
(*   str: v the characters      num: v the decimal digits                  *)
(*   null: v empty              list: v the elements                       *)
(*   obj: v the members, in order, as (key, value)                         *)
(*   absent: what dict.get finds when the key is missing                   *)
(***************************************************************************)
JStr(chars) == [t |-> "str", v |-> chars]

JNum(digits) == [t |-> "num", v |-> digits]

JNull == [t |-> "null", v |-> <<>>]

JList(elems) == [t |-> "list", v |-> elems]

JObj(members) == [t |-> "obj", v |-> members]

Member(key, value) == [key |-> key, value |-> value]

\* a line printed to standard output: its text, and the array index and the
\* file path it names (-1 and the empty path when it names none)
Diag(msg, idx, path) == [msg |-> msg, index |-> idx, path |-> path]

Note(msg) == Diag(msg, -1, <<>>)

Printed(msg) == \E k \in 1..Len(printed) : printed[k].msg = msg

(***************************************************************************)
(* extract.py: extract_emails_to_json and parse_mbox as a state machine    *)
(***************************************************************************)
InitExtract ==
    /\ pc = "start"
    /\ \E n \in 0..MaxLines, e, fin \in BOOLEAN :
          \E ls \in [1..n -> LineVocab] :
             /\ input_file = [exists |-> e, lines |-> ls, final_newline |-> fin]
             /\ IsInputFile(input_file)
    /\ mbox_content = <<>>
    /\ email_parts = <<>>
    /\ part_idx = 1
    /\ emails = <<>>
    /\ json_file = NoJson
    /\ printed = <<>>
    /\ json_input = [status |-> "missing", doc |-> JNull]
    /\ emails_data = JNull
    /\ dir_exists = FALSE
    /\ out_dir = {}
    /\ i = 0
    /\ raised = "none"

\* lines 107-111: the input file does not exist
InputMissing ==
    /\ pc = "start"
    /\ ~input_file.exists
    /\ printed' = Append(printed, Note("Error: Input file not found."))
    /\ pc' = "done"
    /\ UNCHANGED <<extract_vars, eml_vars, raised>>

\* lines 114-115: the file is read
ReadInput ==
    /\ pc = "start"
    /\ input_file.exists
    /\ mbox_content' = FileText(input_file)
    /\ pc' = "split"
    /\ UNCHANGED <<input_file, email_parts, part_idx, emails, json_file, printed,
                   eml_vars, raised>>

\* lines 17-24: the text is split and a blank first part dropped
SplitMbox ==
    /\ pc = "split"
    /\ email_parts' = SplitMboxParts(mbox_content)
    /\ part_idx' = 1
    /\ emails' = <<>>
    /\ pc' = "parts"
    /\ UNCHANGED <<input_file, mbox_content, json_file, printed, eml_vars, raised>>

\* lines 26-28: no part is left
NoEmailsFound ==
    /\ pc = "parts"
    /\ email_parts = <<>>
    /\ printed' = Append(printed, Note("No emails found in the provided content."))
    /\ pc' = "returned"
    /\ UNCHANGED <<extract_vars, eml_vars, raised>>

\* lines 30-93: one pass of the loop over email_parts
ParseNextEmail ==
    /\ pc = "parts"
    /\ part_idx <= Len(email_parts)
    /\ emails' = IF SkipsPart(email_parts[part_idx]) THEN emails
                 ELSE Append(emails, ParseEmail(email_parts[part_idx]))
    /\ part_idx' = part_idx + 1
    /\ UNCHANGED <<pc, input_file, mbox_content, email_parts, json_file, printed,
                   eml_vars, raised>>

\* line 95: the loop is over
ReturnEmails ==
    /\ pc = "parts"
    /\ email_parts # <<>>
    /\ part_idx > Len(email_parts)
    /\ pc' = "returned"
    /\ UNCHANGED <<extract_vars, printed, eml_vars, raised>>

\* lines 120-122: nothing was parsed
NoEmailsParsed ==
    /\ pc = "returned"
    /\ emails = <<>>
    /\ printed' = Append(printed, Note("No emails were parsed."))
    /\ pc' = "done"
    /\ UNCHANGED <<extract_vars, eml_vars, raised>>

\* lines 125-128: the records are written to the JSON file
WriteJson ==
    /\ pc = "returned"
    /\ emails # <<>>
    /\ json_file' = [written |-> TRUE, content |-> emails]
    /\ printed' = Append(printed, Note("Successfully extracted emails"))
    /\ pc' = "done"
    /\ UNCHANGED <<input_file, mbox_content, email_parts, part_idx, emails,
                   eml_vars, raised>>

\* lines 133-134: opening the JSON file fails and the error is printed
WriteJsonFails ==
    /\ pc = "returned"
    /\ emails # <<>>
    /\ printed' = Append(printed, Note("An error occurred"))
    /\ pc' = "done"
    /\ UNCHANGED <<extract_vars, eml_vars, raised>>

NextExtract ==
    \/ InputMissing
    \/ ReadInput
    \/ SplitMbox
    \/ NoEmailsFound
    \/ ParseNextEmail
    \/ ReturnEmails
    \/ NoEmailsParsed
    \/ WriteJson
    \/ WriteJsonFails

SpecExtract == InitExtract /\ [][NextExtract]_vars

(***************************************************************************)
(* What the input file holds, read off its lines: the segments that start  *)
(* with an envelope line, each one's header block and trailing text, and   *)
(* the value a folded header is expected to have.                          *)
(***************************************************************************)
SrcLines == input_file.lines

IsEnvelope(line) == StartsWith(line, FromSp)

EnvelopeIdx == {k \in 1..Len(SrcLines) : IsEnvelope(SrcLines[k])}

NumSegments == Cardinality(EnvelopeIdx)

SegStart(n) == CHOOSE k \in EnvelopeIdx : Cardinality({j \in EnvelopeIdx : j <= k}) = n

SegEnd(n) == IF n = NumSegments THEN Len(SrcLines) ELSE SegStart(n + 1) - 1

SegLines(n) == SubSeq(SrcLines, SegStart(n), SegEnd(n))

\* the lines before the first envelope line
Preamble ==
    SubSeq(SrcLines, 1, IF EnvelopeIdx = {} THEN Len(SrcLines) ELSE SetMin(EnvelopeIdx) - 1)

PreambleIsBlank == \A k \in 1..Len(Preamble) : Strip(Preamble[k]) = <<>>

\* the record of the n-th envelope-delimited segment
RecordOf(n) == emails[n + (IF PreambleIsBlank THEN 0 ELSE 1)]

BlankIdx(seg) == {k \in 2..Len(seg) : Strip(seg[k]) = <<>>}

HasSeparator(seg) == BlankIdx(seg) # {}

HeaderBlock(seg) ==
    SubSeq(seg, 2, IF HasSeparator(seg) THEN SetMin(BlankIdx(seg)) - 1 ELSE Len(seg))

TrailingLines(seg) == SubSeq(seg, SetMin(BlankIdx(seg)) + 1, Len(seg))

IsKeyValue(line) == ~IsContinuation(line) /\ HeaderMatches(line)

KeyCount(headers, key) == Cardinality({k \in 1..Len(headers) : headers[k].key = key})

\* the number of continuation lines that immediately follow line j
RECURSIVE ContRun(_, _)
ContRun(hb, j) ==
    IF j + 1 <= Len(hb) /\ IsContinuation(hb[j + 1]) THEN 1 + ContRun(hb, j + 1) ELSE 0

FirstOccurrence(hb, j) ==
    /\ IsKeyValue(hb[j])
    /\ \A m \in 1..(j - 1) : ~(IsKeyValue(hb[m]) /\ MatchKey(hb[m]) = MatchKey(hb[j]))

\* the next line after j that stores a new key, or the end of the block
NextNewKey(hb, j) ==
    SetMin({m \in (j + 1)..Len(hb) : FirstOccurrence(hb, m)} \cup {Len(hb) + 1})

\* the trimmed content of the continuation lines among lines from..upto
RECURSIVE Continuations(_, _, _)
Continuations(hb, from, upto) ==
    IF from > upto THEN <<>>
    ELSE (IF IsContinuation(hb[from]) THEN <<NL>> \o Strip(hb[from]) ELSE <<>>)
         \o Continuations(hb, from + 1, upto)

FoldedValue(hb, j, upto) == Strip(MatchValue(hb[j])) \o Continuations(hb, j + 1, upto)

(***************************************************************************)
(* Claims about parse_mbox and extract_emails_to_json                      *)
(***************************************************************************)

\* C1: parse_mbox returns exactly one record per segment that starts with a
\* line beginning with "From ", and none from text before the first such line.
C1_OneRecordPerFromSegment ==
    pc = "returned" => Len(emails) = NumSegments

\* C2: for a text in which no line begins with "From ", parse_mbox returns an
\* empty list, "no emails found" is printed, and no JSON output is written.
C2_NoFromLineNoRecords ==
    (pc = "done" /\ input_file.exists /\ NumSegments = 0) =>
        /\ emails = <<>>
        /\ Printed("No emails found in the provided content.")
        /\ ~json_file.written
        /\ raised = "none"

\* C3 as stated: every "Key: value" header line followed by k >= 1 continuation
\* lines yields Key mapped to the line's content plus the k continuations'
\* trimmed content, whatever lines precede it in the header block.
C3_Original ==
    pc = "returned" =>
        \A n \in 1..NumSegments :
            LET hb == HeaderBlock(SegLines(n))
                hd == RecordOf(n).headers
            IN  \A j \in 1..Len(hb) :
                    (IsKeyValue(hb[j]) /\ ContRun(hb, j) >= 1) =>
                        /\ KeyCount(hd, MatchKey(hb[j])) = 1
                        /\ GetValue(hd, MatchKey(hb[j])) = FoldedValue(hb, j, j + ContRun(hb, j))

\* C3 as amended: a "Key: value" header line whose key has not occurred earlier
\* in the block and that is followed by k >= 1 continuation lines yields Key
\* mapped once, to the line's content, then the k continuations' trimmed
\* content, then the trimmed content of every later continuation line that
\* comes before the next line storing a new key, separated by line breaks.
C3_ContinuationFolding ==
    pc = "returned" =>
        \A n \in 1..NumSegments :
            LET hb == HeaderBlock(SegLines(n))
                hd == RecordOf(n).headers
            IN  \A j \in 1..Len(hb) :
                    (FirstOccurrence(hb, j) /\ ContRun(hb, j) >= 1) =>
                        /\ KeyCount(hd, MatchKey(hb[j])) = 1
                        /\ GetValue(hd, MatchKey(hb[j]))
                             = FoldedValue(hb, j, NextNewKey(hb, j) - 1)

\* C3 witness: a segment whose duplicate key is followed by a continuation line has been
\* parsed, and the continuation went to the value of the first occurrence
C3_Witness ==
    /\ pc = "returned"
    /\ \E n \in 1..NumSegments :
          LET hb == HeaderBlock(SegLines(n))
          IN  \E j \in 1..Len(hb) :
                 /\ FirstOccurrence(hb, j)
                 /\ ContRun(hb, j) >= 1
                 /\ NextNewKey(hb, j) - 1 > j + ContRun(hb, j)
                 /\ Len(GetValue(RecordOf(n).headers, MatchKey(hb[j])))
                      > Len(FoldedValue(hb, j, j + ContRun(hb, j)))

\* two header lines of one block with the same key and different values
Duplicated(hb, j1, j2) ==
    /\ j1 < j2
    /\ FirstOccurrence(hb, j1)
    /\ IsKeyValue(hb[j2])
    /\ MatchKey(hb[j2]) = MatchKey(hb[j1])
    /\ Strip(MatchValue(hb[j2])) # Strip(MatchValue(hb[j1]))

\* C4 as stated: with two header lines of the same key and different values,
\* the key is in the mapping once and its value is the first occurrence's value.
C4_Original ==
    pc = "returned" =>
        \A n \in 1..NumSegments :
            LET hb == HeaderBlock(SegLines(n))
                hd == RecordOf(n).headers
            IN  \A j1, j2 \in 1..Len(hb) :
                    Duplicated(hb, j1, j2) =>
                        /\ KeyCount(hd, MatchKey(hb[j1])) = 1
                        /\ GetValue(hd, MatchKey(hb[j1]))
                             = FoldedValue(hb, j1, j1 + ContRun(hb, j1))

\* C4 as amended: the key is in the mapping once; its value is the first
\* occurrence's value, extended only by the continuation lines that follow a
\* dropped line (such as the duplicate) before the next new key is stored; the
\* duplicate line's own value is never stored.
C4_FirstOccurrenceWins ==
    pc = "returned" =>
        \A n \in 1..NumSegments :
            LET hb == HeaderBlock(SegLines(n))
                hd == RecordOf(n).headers
            IN  \A j1, j2 \in 1..Len(hb) :
                    Duplicated(hb, j1, j2) =>
                        /\ KeyCount(hd, MatchKey(hb[j1])) = 1
                        /\ \A k \in 1..Len(hd) :
                              hd[k].key = MatchKey(hb[j1]) =>
                                 hd[k].value = FoldedValue(hb, j1, NextNewKey(hb, j1) - 1)

\* C4 witness: a segment with a duplicated key has been parsed into a record
C4_Witness ==
    /\ pc = "returned"
    /\ \E n \in 1..NumSegments :
          LET hb == HeaderBlock(SegLines(n))
          IN  \E j1, j2 \in 1..Len(hb) :
                 /\ Duplicated(hb, j1, j2)
                 /\ HasKey(RecordOf(n).headers, MatchKey(hb[j1]))

\* C5: for every segment made of an envelope line, a header block, a blank
\* line and trailing text, the record's body is exactly the trailing text's
\* lines joined with line breaks: the blank line is excluded, no header line
\* is included, and no trailing line is lost or moved to another record.
\* A segment runs from a line beginning with "From " to the next such line.
C5_BodyIsTrailingText ==
    pc = "returned" =>
        /\ Len(emails) >= NumSegments
        /\ \A n \in 1..NumSegments :
              HasSeparator(SegLines(n)) =>
                 RecordOf(n).body = Join(TrailingLines(SegLines(n)), <<NL>>)

\* C5 witness: a segment with a header block, a blank line and two trailing lines has been
\* parsed and its record has a body
C5_Witness ==
    /\ pc = "returned"
    /\ \E n \in 1..NumSegments :
          /\ HasSeparator(SegLines(n))
          /\ Len(HeaderBlock(SegLines(n))) >= 1
          /\ Len(TrailingLines(SegLines(n))) >= 2
          /\ RecordOf(n).body # <<>>

(***************************************************************************)
(* jsonTOeml.py: sanitize_filename                                         *)
(***************************************************************************)
\* line 20: filename[:200]
MaxNameLen == 200

\* line 17: the characters of the class [\\/*?:"<>|]
InvalidChars == {"\\", "/", "*", "?", ":", "\"", "<", ">", "|"}

\* line 17: re.sub(r'[\\/*?:"<>|]', "", filename)
RemoveInvalid(s) == SelectSeq(s, LAMBDA c : c \notin InvalidChars)

\* line 18: re.sub(r'\s+', '_', filename): each run of whitespace becomes one "_"
CollapseWhitespace(s) ==
    LET starts == SelectSeq([k \in 1..Len(s) |-> k],
                            LAMBDA k : s[k] \notin Whitespace \/ k = 1 \/ s[k - 1] \notin Whitespace)
    IN  [j \in 1..Len(starts) |-> IF s[starts[j]] \in Whitespace THEN "_" ELSE s[starts[j]]]

Truncate(s, n) == SubSeq(s, 1, IF Len(s) < n THEN Len(s) ELSE n)

\* lines 13-20 changed to strip every punctuation mark, "!" included
Punctuation == InvalidChars \cup {"!", ".", ",", ";", "'", "(", ")"}

SanitizeAllPunctuation(filename) ==
    IF filename = <<>> THEN <<>>
    ELSE Truncate(CollapseWhitespace(SelectSeq(filename, LAMBDA c : c \notin Punctuation)),
                  MaxNameLen)

\* lines 13-20, for a str argument
sanitize_filename(filename) ==
    IF filename = <<>> THEN <<>>
    ELSE Truncate(CollapseWhitespace(RemoveInvalid(filename)), MaxNameLen)

(***************************************************************************)
(* jsonTOeml.py: convert_json_to_eml, the work done for one array element  *)
(***************************************************************************)
KeyHeaders == <<"h", "e", "a", "d", "e", "r", "s">>

KeyBody == <<"b", "o", "d", "y">>

KeyHash == <<"X", "-", "C", "C", "C", "-", "H", "A", "S", "H">>

KeySubject == <<"S", "u", "b", "j", "e", "c", "t">>

\* a lone surrogate, which json.load accepts ("\ud800") and UTF-8 cannot encode
Surrogate == "U+D800"

\* the truth value Python gives a loaded JSON value
Truthy(val) ==
    CASE val.t = "str" -> val.v # <<>>
      [] val.t = "num" -> val.v # <<"0">>
      [] val.t = "list" -> val.v # <<>>
      [] val.t = "obj" -> val.v # <<>>
      [] OTHER -> FALSE

\* repr of a list of str, as str() and an f-string print it
RECURSIVE ReprItems(_)
ReprItems(elems) ==
    IF elems = <<>> THEN <<>>
    ELSE <<"'">> \o elems[1].v \o <<"'">>
         \o (IF Len(elems) > 1 THEN <<",", " ">> ELSE <<>>) \o ReprItems(Tail(elems))

\* str(value), which is also what an f-string puts in place of {value}
StrOf(val) ==
    CASE val.t = "str" -> val.v
      [] val.t = "num" -> val.v
      [] val.t = "null" -> <<"N", "o", "n", "e">>
      [] val.t = "list" -> <<"[">> \o ReprItems(val.v) \o <<"]">>

\* decimal digits of a natural number
Digit(d) == <<"0", "1", "2", "3", "4", "5", "6", "7", "8", "9">>[d + 1]

RECURSIVE IntStr(_)
IntStr(n) == IF n < 10 THEN <<Digit(n)>> ELSE IntStr(n \div 10) \o <<Digit(n % 10)>>

\* line 59: isinstance(email_obj, dict)
IsDict(val) == val.t = "obj"

\* line 63: email_obj.get('headers', {})
HeadersOf(email_obj) ==
    IF HasKey(email_obj.v, KeyHeaders) THEN GetValue(email_obj.v, KeyHeaders) ELSE JObj(<<>>)

\* line 64: email_obj.get('body', '')
BodyValueOf(email_obj) ==
    IF HasKey(email_obj.v, KeyBody) THEN GetValue(email_obj.v, KeyBody) ELSE JStr(<<>>)

\* lines 75-79: the lines one header contributes
RECURSIVE HeaderListLines(_, _)
HeaderListLines(key, elems) ==
    IF elems = <<>> THEN <<>>
    ELSE key \o <<":", " ">> \o StrOf(elems[1]) \o <<NL>> \o HeaderListLines(key, Tail(elems))

HeaderLines(m) ==
    CASE m.value.t = "str" -> m.key \o <<":", " ">> \o m.value.v \o <<NL>>
      [] m.value.t = "list" -> HeaderListLines(m.key, m.value.v)
      [] OTHER -> <<>>

RECURSIVE AllHeaderLines(_)
AllHeaderLines(members) ==
    IF members = <<>> THEN <<>>
    ELSE HeaderLines(members[1]) \o AllHeaderLines(Tail(members))

\* lines 70-86: header lines, a blank line, the body or its str()
EmlContent(headers, body) == AllHeaderLines(headers.v) \o <<NL>> \o StrOf(body)

\* line 96: f"email_{i + 1}"
FallbackName(idx) == <<"e", "m", "a", "i", "l", "_">> \o IntStr(idx + 1)

\* line 90 / line 92: the header is in the dict and its value is true
HasTrue(headers, key) == HasKey(headers.v, key) /\ Truthy(GetValue(headers.v, key))

\* lines 92-93 reach sanitize_filename with a value re.sub cannot take
SanitizeRaises(headers) ==
    /\ ~HasTrue(headers, KeyHash)
    /\ HasTrue(headers, KeySubject)
    /\ GetValue(headers.v, KeySubject).t # "str"

\* lines 89-96 with the two header tests in the other order
FilenameBaseSubjectFirst(headers, idx) ==
    LET base ==
            IF HasTrue(headers, KeySubject)
            THEN sanitize_filename(GetValue(headers.v, KeySubject).v)
            ELSE IF HasTrue(headers, KeyHash)
            THEN StrOf(GetValue(headers.v, KeyHash))
            ELSE <<>>
    IN  IF base = <<>> THEN FallbackName(idx) ELSE base

\* lines 89-96: hash, else sanitized subject, else (also when that came out
\* empty) the positional name
FilenameBase(headers, idx) ==
    LET base ==
            IF HasTrue(headers, KeyHash)
            THEN StrOf(GetValue(headers.v, KeyHash))
            ELSE IF HasTrue(headers, KeySubject)
            THEN sanitize_filename(GetValue(headers.v, KeySubject).v)
            ELSE <<>>
    IN  IF base = <<>> THEN FallbackName(idx) ELSE base

DotEml == <<".", "e", "m", "l">>

\* lines 98-99: the file's name inside output_dir
EmlFilename(headers, idx) == FilenameBase(headers, idx) \o DotEml

\* line 102: open() fails when the name leads into a directory that is not there
OpenFails(name) == \E k \in 1..Len(name) : name[k] = "/"

\* line 103: write() fails when the text cannot be encoded as UTF-8
EncodeFails(content) == \E k \in 1..Len(content) : content[k] = Surrogate

\* lines 102-103: the file is created, or cut to nothing, and written
WriteFile(dir, name, content) ==
    {f \in dir : f.name # name} \cup {[name |-> name, content |-> content]}

(***************************************************************************)
(* jsonTOeml.py: the array elements the model draws its documents from     *)
(***************************************************************************)
\* the number 5: not an object
ENumber ==
    JNum(<<"5">>)

\* {"headers": "x", "body": "b"}: headers is not an object
EBadHeaders ==
    JObj(<<Member(KeyHeaders, JStr(<<"x">>)),
          Member(KeyBody, JStr(<<"b">>))>>)

\* {"headers": {"X-CCC-HASH": "abc123", "Subject": "Hello World"}, "body": "hi"}
EHashAndSubject ==
    JObj(<<Member(KeyHeaders, JObj(<<Member(KeyHash, JStr(<<"a", "b", "c", "1", "2", "3">>)), Member(KeySubject, JStr(<<"H", "e", "l", "l", "o", " ", "W", "o", "r", "l", "d">>))>>)),
          Member(KeyBody, JStr(<<"h", "i">>))>>)

\* {"headers": {"Subject": "Hello World!!"}, "body": "hi"}
ESubject ==
    JObj(<<Member(KeyHeaders, JObj(<<Member(KeySubject, JStr(<<"H", "e", "l", "l", "o", " ", "W", "o", "r", "l", "d", "!", "!">>))>>)),
          Member(KeyBody, JStr(<<"h", "i">>))>>)

\* {"headers": {"Subject": "?:"}}: the subject sanitizes to nothing
EPunctSubject ==
    JObj(<<Member(KeyHeaders, JObj(<<Member(KeySubject, JStr(<<"?", ":">>))>>))>>)

\* {}: no headers, no body
EEmptyObject ==
    JObj(<<>>)

\* {"headers": {"Subject": 5}, "body": "hi"}
ENumSubject ==
    JObj(<<Member(KeyHeaders, JObj(<<Member(KeySubject, JNum(<<"5">>))>>)),
          Member(KeyBody, JStr(<<"h", "i">>))>>)

\* {"headers": {"X-CCC-HASH": "", "Subject": "a \t b?"}, "body": null}
EEmptyHash ==
    JObj(<<Member(KeyHeaders, JObj(<<Member(KeyHash, JStr(<<>>)), Member(KeySubject, JStr(<<"a", " ", "\t", " ", "b", "?">>))>>)),
          Member(KeyBody, JNull)>>)

\* {"headers": {"X-CCC-HASH": "a/b"}, "body": "hi"}: no directory a in output_dir
ESlashHash ==
    JObj(<<Member(KeyHeaders, JObj(<<Member(KeyHash, JStr(<<"a", "/", "b">>))>>)),
          Member(KeyBody, JStr(<<"h", "i">>))>>)

\* {"headers": {"To": ["a", "b"]}, "body": "\ud800"}
ESurrogateBody ==
    JObj(<<Member(KeyHeaders, JObj(<<Member(<<"T", "o">>, JList(<<JStr(<<"a">>), JStr(<<"b">>)>>))>>)),
          Member(KeyBody, JStr(<<Surrogate>>))>>)

\* {"headers": {"X-CCC-HASH": 7, "Subject": 5}, "body": 7}
ENumHash ==
    JObj(<<Member(KeyHeaders, JObj(<<Member(KeyHash, JNum(<<"7">>)), Member(KeySubject, JNum(<<"5">>))>>)),
          Member(KeyBody, JNum(<<"7">>))>>)

\* {"headers": {"X-CCC-HASH": 0, "Subject": null}, "body": "hi"}
ENullSubject ==
    JObj(<<Member(KeyHeaders, JObj(<<Member(KeyHash, JNum(<<"0">>)), Member(KeySubject, JNull)>>)),
          Member(KeyBody, JStr(<<"h", "i">>))>>)

\* {"headers": {"Subject": "aaa...a"}}: a subject one character longer than
\* the longest name sanitize_filename returns
ELongSubject ==
    JObj(<<Member(KeyHeaders,
                  JObj(<<Member(KeySubject, JStr([k \in 1..(MaxNameLen + 1) |-> "a"]))>>))>>)

ElemVocab ==
    {ELongSubject,
     ENumber,
     EBadHeaders,
     EHashAndSubject,
     ESubject,
     EPunctSubject,
     EEmptyObject,
     ENumSubject,
     EEmptyHash,
     ESlashHash,
     ESurrogateBody,
     ENumHash,
     ENullSubject}

\* the documents the model reads: not there, not JSON, unreadable, not an
\* array, or an array of up to MaxElems elements
JsonStatuses == {"missing", "invalid", "unreadable"}

\* the texts printed in the export loop
CreatedMsg == "Successfully created"

IOErrorMsg == "Error writing .eml file"

UnexpectedMsg == "An unexpected error occurred while writing"

NotDictMsg == "Warning: Skipping item as it's not a dictionary"

BadHeadersMsg == "Warning: Headers are not in the expected dictionary format"

(***************************************************************************)
(* jsonTOeml.py: convert_json_to_eml as a state machine                    *)
(***************************************************************************)
InitEml ==
    /\ pc = "start"
    /\ input_file = [exists |-> FALSE, lines |-> <<>>, final_newline |-> TRUE]
    /\ mbox_content = <<>>
    /\ email_parts = <<>>
    /\ part_idx = 1
    /\ emails = <<>>
    /\ json_file = NoJson
    /\ printed = <<>>
    /\ \/ \E st \in JsonStatuses : json_input = [status |-> st, doc |-> JNull]
       \/ json_input = [status |-> "ok", doc |-> JObj(<<>>)]
       \/ \E n \in 0..MaxElems :
             \E arr \in [1..n -> ElemVocab] : json_input = [status |-> "ok", doc |-> JList(arr)]
    /\ emails_data = JNull
    /\ dir_exists \in BOOLEAN
    /\ out_dir = {}
    /\ i = 0
    /\ raised = "none"

\* lines 33-35: the JSON file is not there
JsonNotFound ==
    /\ pc = "start"
    /\ json_input.status = "missing"
    /\ printed' = Append(printed, Note("Error: JSON file not found"))
    /\ pc' = "done"
    /\ UNCHANGED <<extract_vars, eml_vars, raised>>

\* lines 36-38: the file is not JSON
JsonDecodeError ==
    /\ pc = "start"
    /\ json_input.status = "invalid"
    /\ printed' = Append(printed, Note("Error: Could not decode JSON"))
    /\ pc' = "done"
    /\ UNCHANGED <<extract_vars, eml_vars, raised>>

\* lines 39-41: reading the file fails in another way
JsonReadError ==
    /\ pc = "start"
    /\ json_input.status = "unreadable"
    /\ printed' = Append(printed, Note("An unexpected error occurred while reading the JSON file"))
    /\ pc' = "done"
    /\ UNCHANGED <<extract_vars, eml_vars, raised>>

\* lines 31-32: the document is loaded
LoadJson ==
    /\ pc = "start"
    /\ json_input.status = "ok"
    /\ emails_data' = json_input.doc
    /\ pc' = "loaded"
    /\ UNCHANGED <<extract_vars, json_input, dir_exists, out_dir, i, printed, raised>>

\* lines 43-45: the document is not a list
NotAList ==
    /\ pc = "loaded"
    /\ emails_data.t # "list"
    /\ printed' = Append(printed, Note("Error: JSON file should contain a list of email objects."))
    /\ pc' = "done"
    /\ UNCHANGED <<extract_vars, eml_vars, raised>>

\* lines 48-51 and 56: the output directory is there, or is made
EnsureOutputDir ==
    /\ pc = "loaded"
    /\ emails_data.t = "list"
    /\ dir_exists' = TRUE
    /\ printed' = (IF dir_exists THEN printed
                   ELSE Append(printed, Note("Created output directory")))
                  \o <<Diag("Found emails. Starting conversion...", Len(emails_data.v), <<>>)>>
    /\ i' = 0
    /\ pc' = "loop"
    /\ UNCHANGED <<extract_vars, json_input, emails_data, out_dir, raised>>

\* lines 52-54: os.makedirs fails
MakeDirFails ==
    /\ pc = "loaded"
    /\ emails_data.t = "list"
    /\ ~dir_exists
    /\ printed' = Append(printed, Note("Error creating output directory"))
    /\ pc' = "done"
    /\ UNCHANGED <<extract_vars, eml_vars, raised>>

InLoop == pc = "loop" /\ i < Len(emails_data.v)

\* the element of the current pass, emails_data[i]
Current == emails_data.v[i + 1]

\* lines 59-61: the element is not a dict
SkipNonDict ==
    /\ InLoop
    /\ ~IsDict(Current)
    /\ printed' = Append(printed, Diag(NotDictMsg, i, <<>>))
    /\ i' = i + 1
    /\ UNCHANGED <<pc, extract_vars, json_input, emails_data, dir_exists, out_dir, raised>>

\* lines 66-68: its headers are not a dict
SkipBadHeaders ==
    /\ InLoop
    /\ IsDict(Current)
    /\ ~IsDict(HeadersOf(Current))
    /\ printed' = Append(printed, Diag(BadHeadersMsg, i, <<>>))
    /\ i' = i + 1
    /\ UNCHANGED <<pc, extract_vars, json_input, emails_data, dir_exists, out_dir, raised>>

Exportable == InLoop /\ IsDict(Current) /\ IsDict(HeadersOf(Current))

\* line 93: re.sub raises TypeError on a subject that is not a str; nothing
\* catches it and the call ends there
SanitizeTypeError ==
    /\ Exportable
    /\ SanitizeRaises(HeadersOf(Current))
    /\ raised' = "TypeError"
    /\ pc' = "crashed"
    /\ UNCHANGED <<extract_vars, eml_vars, printed>>

\* lines 70-104: content and name are built and the file is written
WriteEml ==
    /\ Exportable
    /\ ~SanitizeRaises(HeadersOf(Current))
    /\ LET name == EmlFilename(HeadersOf(Current), i)
           content == EmlContent(HeadersOf(Current), BodyValueOf(Current))
       IN  /\ ~OpenFails(name)
           /\ ~EncodeFails(content)
           /\ out_dir' = WriteFile(out_dir, name, content)
           /\ printed' = Append(printed, Diag(CreatedMsg, i, name))
    /\ i' = i + 1
    /\ UNCHANGED <<pc, extract_vars, json_input, emails_data, dir_exists, raised>>

\* lines 105-106: open() raises an OSError; no file is made
WriteIOError ==
    /\ Exportable
    /\ ~SanitizeRaises(HeadersOf(Current))
    /\ LET name == EmlFilename(HeadersOf(Current), i)
       IN  /\ OpenFails(name)
           /\ printed' = Append(printed, Diag(IOErrorMsg, i, name))
    /\ i' = i + 1
    /\ UNCHANGED <<pc, extract_vars, json_input, emails_data, dir_exists, out_dir, raised>>

\* lines 107-108: the file is opened, which creates it or cuts it to nothing,
\* and write() raises UnicodeEncodeError
WriteUnexpectedError ==
    /\ Exportable
    /\ ~SanitizeRaises(HeadersOf(Current))
    /\ LET name == EmlFilename(HeadersOf(Current), i)
           content == EmlContent(HeadersOf(Current), BodyValueOf(Current))
       IN  /\ ~OpenFails(name)
           /\ EncodeFails(content)
           /\ out_dir' = WriteFile(out_dir, name, <<>>)
           /\ printed' = Append(printed, Diag(UnexpectedMsg, i, name))
    /\ i' = i + 1
    /\ UNCHANGED <<pc, extract_vars, json_input, emails_data, dir_exists, raised>>

\* line 110: the loop is over
ConversionComplete ==
    /\ pc = "loop"
    /\ i >= Len(emails_data.v)
    /\ printed' = Append(printed, Diag("Conversion complete.", Len(emails_data.v), <<>>))
    /\ pc' = "done"
    /\ UNCHANGED <<extract_vars, eml_vars, raised>>

NextEml ==
    \/ JsonNotFound
    \/ JsonDecodeError
    \/ JsonReadError
    \/ LoadJson
    \/ NotAList
    \/ EnsureOutputDir
    \/ MakeDirFails
    \/ SkipNonDict
    \/ SkipBadHeaders
    \/ SanitizeTypeError
    \/ WriteEml
    \/ WriteIOError
    \/ WriteUnexpectedError
    \/ ConversionComplete

SpecEml == InitEml /\ [][NextEml]_vars

(***************************************************************************)
(* What the export is expected to do, read off the loaded array and the    *)
(* printed lines.                                                          *)
(***************************************************************************)
Elements == emails_data.v

PathMsgs == {CreatedMsg, IOErrorMsg, UnexpectedMsg}

LoopMsgs == PathMsgs \cup {NotDictMsg, BadHeadersMsg}

\* the printed lines that name a file for a record
PathDiagIdx == {k \in 1..Len(printed) : printed[k].msg \in PathMsgs}

\* the export loop was entered and the call is over
ExportOver ==
    /\ pc \in {"done", "crashed"}
    /\ Printed("Found emails. Starting conversion...")

\* header `key` is present in the record at idx with a non-empty value
PresentNonEmpty(idx, key) ==
    LET h == HeadersOf(Elements[idx + 1]).v
    IN  \E m \in 1..Len(h) :
           /\ h[m].key = key
           /\ h[m].value.t # "null"
           /\ h[m].value.v # <<>>
           /\ h[m].value # JNum(<<"0">>)

HeaderText(idx, key) ==
    LET h == HeadersOf(Elements[idx + 1]).v
    IN  StrOf(h[CHOOSE m \in 1..Len(h) : h[m].key = key].value)

IsStrHeader(idx, key) ==
    LET h == HeadersOf(Elements[idx + 1]).v
    IN  \E m \in 1..Len(h) : h[m].key = key /\ h[m].value.t = "str"

\* the sanitized subject, character by character: an invalid character is
\* dropped; a whitespace character stands for "_" unless the nearest character
\* before it that is not invalid is whitespace too, and is dropped then; the
\* result is cut to MaxNameLen characters
LastValidBefore(s, k) == SetMax({0} \cup {j \in 1..(k - 1) : s[j] \notin InvalidChars})

KeptInName(s, k) ==
    /\ s[k] \notin InvalidChars
    /\ s[k] \in Whitespace =>
          (LastValidBefore(s, k) = 0 \/ s[LastValidBefore(s, k)] \notin Whitespace)

CleanSubject(idx) ==
    LET s == HeaderText(idx, KeySubject)
        kept == SelectSeq([k \in 1..Len(s) |-> k], LAMBDA k : KeptInName(s, k))
        n == IF Len(kept) < MaxNameLen THEN Len(kept) ELSE MaxNameLen
    IN  [j \in 1..n |-> IF s[kept[j]] \in Whitespace THEN "_" ELSE s[kept[j]]]

PositionalName(idx) == <<"e", "m", "a", "i", "l", "_">> \o IntStr(idx + 1) \o DotEml

\* the record at idx is an object whose headers are an object
ValidRecord(idx) == IsDict(Elements[idx + 1]) /\ IsDict(HeadersOf(Elements[idx + 1]))

(***************************************************************************)
(* Claims about convert_json_to_eml                                        *)
(***************************************************************************)

\* C6 as stated: the name is the X-CCC-HASH value plus ".eml" if that header is
\* present and non-empty, otherwise the sanitized Subject plus ".eml" if Subject
\* is present and non-empty, otherwise, and only then, email_<i+1>.eml.
C6_Original ==
    \A k \in PathDiagIdx :
        LET idx == printed[k].index
        IN  printed[k].path =
               IF PresentNonEmpty(idx, KeyHash) THEN HeaderText(idx, KeyHash) \o DotEml
               ELSE IF PresentNonEmpty(idx, KeySubject) THEN CleanSubject(idx) \o DotEml
               ELSE PositionalName(idx)

\* C6 as amended: the name is the X-CCC-HASH value plus ".eml" if that header is
\* present and non-empty; otherwise the sanitized Subject plus ".eml" if Subject
\* is a non-empty string whose sanitized form is not empty; otherwise, when
\* Subject is absent, empty or sanitizes to the empty string, email_<i+1>.eml.
\* Every record the loop has passed that is an object with object headers was
\* given exactly one name.
C6_NamePrecedence ==
    /\ \A k \in PathDiagIdx :
          LET idx == printed[k].index
          IN  printed[k].path =
                 IF PresentNonEmpty(idx, KeyHash) THEN HeaderText(idx, KeyHash) \o DotEml
                 ELSE IF /\ PresentNonEmpty(idx, KeySubject)
                         /\ IsStrHeader(idx, KeySubject)
                         /\ CleanSubject(idx) # <<>>
                 THEN CleanSubject(idx) \o DotEml
                 ELSE PositionalName(idx)
    /\ pc \in {"loop", "done", "crashed"} =>
          \A idx \in 0..(i - 1) :
              ValidRecord(idx) => Cardinality({k \in PathDiagIdx : printed[k].index = idx}) = 1

\* C6 witness: an export is over in which one record was named by its hash although it has
\* a subject, one by its subject, and one by its position because its
\* non-empty subject sanitizes to nothing
C6_Witness ==
    /\ pc = "done"
    /\ \E k \in PathDiagIdx :
          /\ PresentNonEmpty(printed[k].index, KeyHash)
          /\ PresentNonEmpty(printed[k].index, KeySubject)
    /\ \E k \in PathDiagIdx :
          /\ ~PresentNonEmpty(printed[k].index, KeyHash)
          /\ PresentNonEmpty(printed[k].index, KeySubject)
          /\ printed[k].path = CleanSubject(printed[k].index) \o DotEml
    /\ \E k \in PathDiagIdx :
          /\ ~PresentNonEmpty(printed[k].index, KeyHash)
          /\ PresentNonEmpty(printed[k].index, KeySubject)
          /\ CleanSubject(printed[k].index) = <<>>
          /\ printed[k].path = PositionalName(printed[k].index)

HelloWorldBangs == <<"H", "e", "l", "l", "o", " ", "W", "o", "r", "l", "d", "!", "!">>

\* the record at idx has no non-empty X-CCC-HASH and a non-empty str Subject
NamedBySubject(idx) ==
    /\ ~PresentNonEmpty(idx, KeyHash)
    /\ PresentNonEmpty(idx, KeySubject)
    /\ IsStrHeader(idx, KeySubject)

\* C7 as stated: a record whose only naming header is "Subject: Hello World!!"
\* is exported as Hello_World.eml (punctuation stripped, spaces to underscores).
C7_Original ==
    \A k \in PathDiagIdx :
        (/\ NamedBySubject(printed[k].index)
         /\ HeaderText(printed[k].index, KeySubject) = HelloWorldBangs)
            => printed[k].path = <<"H", "e", "l", "l", "o", "_", "W", "o", "r", "l", "d", ".", "e", "m", "l">>

\* C7 as amended: with no non-empty X-CCC-HASH and a non-empty string Subject
\* whose sanitized form is not empty, the name is the Subject with each of
\* \ / * ? : " < > | removed, then every run of whitespace turned into one
\* underscore, then cut to 200 characters, plus ".eml"; other punctuation
\* stays: "Subject: Hello World!!" is exported as Hello_World!!.eml.
C7_SanitizedSubjectName ==
    \A k \in PathDiagIdx :
        LET idx == printed[k].index
        IN  (NamedBySubject(idx) /\ CleanSubject(idx) # <<>>) =>
               /\ printed[k].path = CleanSubject(idx) \o DotEml
               /\ \A c \in 1..(Len(printed[k].path) - Len(DotEml)) :
                     printed[k].path[c] \notin InvalidChars \cup Whitespace
               /\ Len(printed[k].path) <= MaxNameLen + Len(DotEml)
               /\ HeaderText(idx, KeySubject) = HelloWorldBangs
                     => printed[k].path = <<"H", "e", "l", "l", "o", "_", "W", "o", "r", "l", "d", "!", "!", ".", "e", "m", "l">>

\* C7 witness: an export is over that wrote Hello_World!!.eml for "Hello World!!", a name
\* with a collapsed whitespace run, and a name cut to 200 characters
C7_Witness ==
    /\ pc = "done"
    /\ \E k \in PathDiagIdx :
          /\ printed[k].msg = CreatedMsg
          /\ NamedBySubject(printed[k].index)
          /\ HeaderText(printed[k].index, KeySubject) = HelloWorldBangs
          /\ \E f \in out_dir : f.name = <<"H", "e", "l", "l", "o", "_", "W", "o", "r", "l", "d", "!", "!", ".", "e", "m", "l">>
    /\ \E k \in PathDiagIdx :
          /\ NamedBySubject(printed[k].index)
          /\ Len(printed[k].path) = MaxNameLen + Len(DotEml)
    /\ \E k \in PathDiagIdx :
          /\ NamedBySubject(printed[k].index)
          /\ printed[k].path = <<"a", "_", "b", ".", "e", "m", "l">>

\* C8: after a run on an array with N valid records, into an empty output
\* directory and with every write succeeding, the directory holds exactly N
\* files, one per record, each with the text of its own record.
C8_OneFilePerRecord ==
    (/\ pc = "done"
     /\ Printed("Conversion complete.")
     /\ \A k \in PathDiagIdx : printed[k].msg = CreatedMsg)
        =>
        /\ Cardinality(out_dir)
             = Cardinality({idx \in 0..(Len(Elements) - 1) : ValidRecord(idx)})
        /\ \A k \in PathDiagIdx :
              \E f \in out_dir :
                 /\ f.name = printed[k].path
                 /\ f.content = EmlContent(HeadersOf(Elements[printed[k].index + 1]),
                                           BodyValueOf(Elements[printed[k].index + 1]))

\* C9: convert_json_to_eml never lets an exception escape to its caller.
C9_NoExceptionEscapes ==
    raised = "none" /\ pc # "crashed"

\* the write for the record at idx fails
WriteFails(idx) ==
    /\ ValidRecord(idx)
    /\ ~SanitizeRaises(HeadersOf(Elements[idx + 1]))
    /\ \/ OpenFails(EmlFilename(HeadersOf(Elements[idx + 1]), idx))
       \/ EncodeFails(EmlContent(HeadersOf(Elements[idx + 1]), BodyValueOf(Elements[idx + 1])))

\* C10: an element that is not an object, whose headers are not an object, or
\* whose write fails gets exactly one printed warning or error and no file, and
\* every other valid element, before or after it, is processed and written.
C10_ProblemsStayLocal ==
    ExportOver =>
        \A idx \in 0..(Len(Elements) - 1) :
            /\ (~ValidRecord(idx) \/ WriteFails(idx)) =>
                  /\ Cardinality({k \in 1..Len(printed) :
                         printed[k].msg \in LoopMsgs /\ printed[k].index = idx}) = 1
                  /\ \A k \in PathDiagIdx :
                        printed[k].index = idx =>
                           \A f \in out_dir :
                              f.name = printed[k].path =>
                                 \E k2 \in PathDiagIdx :
                                    /\ printed[k2].index # idx
                                    /\ printed[k2].msg = CreatedMsg
                                    /\ printed[k2].path = f.name
            /\ (ValidRecord(idx) /\ ~WriteFails(idx)) =>
                  \E k \in PathDiagIdx :
                     /\ printed[k].index = idx
                     /\ printed[k].msg = CreatedMsg
                     /\ \E f \in out_dir : f.name = printed[k].path

====
